---- MODULE Spec2Model ----
(***************************************************************************)
(* Model of the ip_checker_logic library (IpAddress, SubnetMask, Prefix,   *)
(* NetworkAddress, IpCalculator, IpModel::validate).                       *)
(*                                                                         *)
(* Strings are sequences of one-character strings, so splitting, parsing   *)
(* and formatting are computed character by character.  A u32 is a pair    *)
(* of 16-bit halves, so shifts, masks and wrapping arithmetic keep their   *)
(* 32-bit width.                                                           *)
(***************************************************************************)
EXTENDS Integers, Sequences, FiniteSets, TLC

(***************************************************************************)
(* Bounds of the explored input space.                                     *)
(***************************************************************************)
\* how many entries of OctetSamples the calculator inputs are drawn from
NumOctetSamples == 5
\* prefix lengths 0..MaxPrefixInput are tried (1..32 are the valid ones)
MaxPrefixInput == 33
\* input texts have 0..MaxFields fields
MaxFields == 5
\* how many entries of IpFieldSamples / MaskFieldSamples the texts are built from
NumIpFieldSamples == 8
NumMaskFieldSamples == 8
NumNetFieldSamples == 6
\* how many entries of RandomOctetSamples the random generator draws from
NumRandomOctetSamples == 6
\* how many entries of UiDrawSamples the UI's generator draws from
NumUiDraws == 2
\* validate is called up to MaxValidateCalls times on the same inputs
MaxValidateCalls == 2

OctetSamples == <<192, 168, 1, 0, 255, 254, 128, 10>>

Min(a, b) == IF a < b THEN a ELSE b

OctetInputs == {OctetSamples[i] : i \in 1..Min(NumOctetSamples, Len(OctetSamples))}

PrefixInputs == 0..MaxPrefixInput

\* gen_range(111..255) for each octet and gen_range(18..28) for the prefix length
RandomOctetMin == 111
RandomOctetEnd == 255
RandomPrefixMin == 18
RandomPrefixEnd == 28

RandomOctetSamples == <<111, 254, 128, 192, 127, 160, 224, 191>>

\* the octets the generator can draw, restricted to the samples
RandomOctetInputs ==
  {RandomOctetSamples[i] : i \in 1..Min(NumRandomOctetSamples, Len(RandomOctetSamples))}
    \cap (RandomOctetMin..(RandomOctetEnd - 1))

RandomPrefixes == RandomPrefixMin..(RandomPrefixEnd - 1)

\* fields the texts handed to IpAddress::try_new are built from
IpFieldSamples ==
  << <<"1">>, <<"0">>, <<"2", "5", "5">>, <<"2", "5", "6">>, <<"a">>, <<>>,
     <<"6", "5", "5", "3", "6">>, <<"+", "1">>, <<"0", "1">>, <<"-", "1">> >>

\* fields the texts handed to SubnetMask::try_new are built from
MaskFieldSamples ==
  << <<"2", "5", "5">>, <<"0">>, <<"1", "2", "8">>, <<"3">>, <<"a">>, <<"0", "0">>,
     <<"2", "5", "6">>, <<"1", "9", "2">>, <<"+", "2", "5", "5">>, <<>> >>

\* fields the texts handed to NetworkAddress::try_new are built from
NetFieldSamples ==
  << <<"1", "9", "2">>, <<"1", "6", "8">>, <<"1">>, <<"0">>, <<"1", "2", "8">>, <<"a">>,
     <<"2", "5", "5">>, <<"2", "5", "6">>, <<>> >>

\* the prefix lengths a Prefix can hold
ValidPrefixes == 1..32

\* fields joined with '.'
RECURSIVE Join(_)
Join(fields) ==
  IF fields = <<>> THEN <<>>
  ELSE IF Len(fields) = 1 THEN fields[1]
  ELSE fields[1] \o <<".">> \o Join(Tail(fields))

\* the input texts: every text of four fields taken from the first num
\* samples, and every text of 0..MaxFields fields taken from the first two
TextsFrom(samples, num) ==
  LET fs == {samples[i] : i \in 1..Min(num, Len(samples))}
      few == {samples[1], samples[2]}
  IN  {Join(f) : f \in [1..4 -> fs] \cup UNION {[1..k -> few] : k \in 0..MaxFields}}

(***************************************************************************)
(* Characters and decimal text.                                            *)
(***************************************************************************)
Digits == <<"0", "1", "2", "3", "4", "5", "6", "7", "8", "9">>

IsDigit(c) == \E d \in 1..10 : Digits[d] = c

DigitVal(c) == (CHOOSE d \in 1..10 : Digits[d] = c) - 1

\* format!("{}", n) for an unsigned integer
RECURSIVE ToDecimal(_)
ToDecimal(n) ==
  IF n < 10 THEN <<Digits[n + 1]>>
  ELSE ToDecimal(n \div 10) \o <<Digits[(n % 10) + 1]>>

\* format!("{}.{}.{}.{}", a, b, c, d)
FormatDotted(a, b, c, d) ==
  ToDecimal(a) \o <<".">> \o ToDecimal(b) \o <<".">> \o ToDecimal(c) \o <<".">> \o ToDecimal(d)

\* str::split('.') : always at least one field, empty fields are kept
RECURSIVE Split(_)
Split(s) ==
  IF \A i \in 1..Len(s) : s[i] # "."
  THEN <<s>>
  ELSE LET i == CHOOSE k \in 1..Len(s) :
                  s[k] = "." /\ \A j \in 1..(k - 1) : s[j] # "."
       IN  <<SubSeq(s, 1, i - 1)>> \o Split(SubSeq(s, i + 1, Len(s)))

\* accumulate decimal digits with the overflow check of checked_mul/checked_add;
\* -1 stands for Err
RECURSIVE ParseDigits(_, _, _)
ParseDigits(s, acc, max) ==
  IF s = <<>> THEN acc
  ELSE IF ~IsDigit(Head(s)) THEN -1
  ELSE LET v == acc * 10 + DigitVal(Head(s))
       IN  IF v > max THEN -1 ELSE ParseDigits(Tail(s), v, max)

\* str::parse::<uN>() with uN::MAX = max: an optional leading '+', then one
\* or more digits; no '-' for an unsigned type; -1 stands for Err
ParseUint(s, max) ==
  IF s = <<>> THEN -1
  ELSE IF Head(s) \in {"+", "-"} /\ Len(s) = 1 THEN -1
  ELSE IF Head(s) = "+" THEN ParseDigits(Tail(s), 0, max)
  ELSE ParseDigits(s, 0, max)

U8Max == 255
U16Max == 65535

(***************************************************************************)
(* 32-bit unsigned values: <<hi, lo>>, two 16-bit halves, value            *)
(* hi * 65536 + lo.  Every operation reduces modulo 2^32.                  *)
(***************************************************************************)
Half == 65536

\* a number below 2^31 as a u32
U32(n) == <<n \div Half, n % Half>>

\* !0u32
AllOnes == <<Half - 1, Half - 1>>

\* the numeric value of a u32 below 2^31
U32Val(x) == x[1] * Half + x[2]

\* bitwise and of two numbers
RECURSIVE AndNat(_, _)
AndNat(a, b) ==
  IF a = 0 \/ b = 0 THEN 0
  ELSE (a % 2) * (b % 2) + 2 * AndNat(a \div 2, b \div 2)

BitAnd(x, y) == <<AndNat(x[1], y[1]), AndNat(x[2], y[2])>>
BitOr(x, y) == <<x[1] + y[1] - AndNat(x[1], y[1]), x[2] + y[2] - AndNat(x[2], y[2])>>
BitNot(x) == <<Half - 1 - x[1], Half - 1 - x[2]>>

\* x << k and x >> k for a shift amount k in 0..31 (bits shifted out are lost)
Shl(x, k) ==
  IF k >= 16
  THEN <<(x[2] * (2 ^ (k - 16))) % Half, 0>>
  ELSE <<(x[1] * (2 ^ k) + (x[2] * (2 ^ k)) \div Half) % Half, (x[2] * (2 ^ k)) % Half>>

Shr(x, k) ==
  IF k >= 16
  THEN <<0, x[1] \div (2 ^ (k - 16))>>
  ELSE <<x[1] \div (2 ^ k), ((x[1] % (2 ^ k)) * (2 ^ (16 - k)) + x[2] \div (2 ^ k)) % Half>>

\* u32 addition: the wrapped value, and whether it overflowed
U32Add(x, y) ==
  LET lo == x[2] + y[2]
      hi == x[1] + y[1] + lo \div Half
  IN  [val |-> <<hi % Half, lo % Half>>, overflow |-> hi >= Half]

\* u32 subtraction: the wrapped value, and whether it underflowed
U32Sub(x, y) ==
  LET lo == x[2] - y[2]
      borrow == IF lo < 0 THEN 1 ELSE 0
      hi == x[1] - y[1] - borrow
  IN  [val |-> <<(hi + Half) % Half, (lo + Half) % Half>>, overflow |-> hi < 0]

\* (value >> k) & 0xFF as a number
ByteAt(x, k) == U32Val(BitAnd(Shr(x, k), U32(255)))

(***************************************************************************)
(* Result values.  Every Result<T, E> is a record with the same fields:    *)
(* ok, val (the stored string, <<>> on Err) and err (kind, arg).           *)
(***************************************************************************)
NoErr == [kind |-> "None", arg |-> 0]
Ok(v) == [ok |-> TRUE, val |-> v, err |-> NoErr]
Err(k, a) == [ok |-> FALSE, val |-> <<>>, err |-> [kind |-> k, arg |-> a]]

(***************************************************************************)
(* ip_address.rs                                                           *)
(***************************************************************************)
\* the for loop of IpAddress::try_new from field i on (i is 1-based, so the
\* reported position i is the code's index + 1)
RECURSIVE IpAddress_check_octets(_, _, _)
IpAddress_check_octets(ip, octets, i) ==
  IF i > Len(octets) THEN Ok(ip)
  ELSE LET num == ParseUint(octets[i], U16Max)
       IN  IF num = -1 THEN Err("InvalidOctet", i)
           ELSE IF num > 255 THEN Err("OctetOutOfRange", i)
           ELSE IF num < 1 THEN Err("OctetOutOfRange", i)
           ELSE IpAddress_check_octets(ip, octets, i + 1)

\* try_new without the empty-string check
IpAddress_try_new_no_empty_check(ip) ==
  LET octets == Split(ip)
  IN  IF Len(octets) # 4 THEN Err("InvalidOctetCount", Len(octets))
      ELSE IpAddress_check_octets(ip, octets, 1)

IpAddress_try_new(ip) ==
  IF ip = <<>> THEN Err("EmptyAddress", 0)
  ELSE LET octets == Split(ip)
       IN  IF Len(octets) # 4 THEN Err("InvalidOctetCount", Len(octets))
           ELSE IpAddress_check_octets(ip, octets, 1)

(***************************************************************************)
(* subnet_mask.rs                                                          *)
(***************************************************************************)
valid_values == {0, 128, 192, 224, 240, 248, 252, 254, 255}

\* the loop of SubnetMask::try_new without the update of previous_octet
RECURSIVE SubnetMask_check_octets_no_update(_, _, _, _)
SubnetMask_check_octets_no_update(mask, octets, i, previous_octet) ==
  IF i > Len(octets) THEN Ok(mask)
  ELSE LET num == ParseUint(octets[i], U8Max)
       IN  IF num = -1 THEN Err("InvalidOctet", i)
           ELSE IF num \notin valid_values THEN Err("InvalidOctetValue", i)
           ELSE IF num > previous_octet THEN Err("InvalidMaskPattern", 0)
           ELSE SubnetMask_check_octets_no_update(mask, octets, i + 1, previous_octet)

\* the for loop of SubnetMask::try_new from field i on
RECURSIVE SubnetMask_check_octets(_, _, _, _)
SubnetMask_check_octets(mask, octets, i, previous_octet) ==
  IF i > Len(octets) THEN Ok(mask)
  ELSE LET num == ParseUint(octets[i], U8Max)
       IN  IF num = -1 THEN Err("InvalidOctet", i)
           ELSE IF num \notin valid_values THEN Err("InvalidOctetValue", i)
           ELSE IF num > previous_octet THEN Err("InvalidMaskPattern", 0)
           ELSE SubnetMask_check_octets(mask, octets, i + 1, num)

SubnetMask_try_new(mask) ==
  IF mask = <<>> THEN Err("EmptyMask", 0)
  ELSE LET octets == Split(mask)
       IN  IF Len(octets) # 4 THEN Err("InvalidOctetCount", Len(octets))
           ELSE SubnetMask_check_octets(mask, octets, 1, 255)

\* u8::count_ones
RECURSIVE count_ones(_)
count_ones(n) == IF n = 0 THEN 0 ELSE (n % 2) + count_ones(n \div 2)

\* SubnetMask::to_prefix on the stored string of an accepted mask
RECURSIVE SumOnes(_)
SumOnes(octets) ==
  IF octets = <<>> THEN 0
  ELSE count_ones(ParseUint(Head(octets), U8Max)) + SumOnes(Tail(octets))

SubnetMask_to_prefix(mask) == SumOnes(Split(mask)) % 256

(***************************************************************************)
(* prefix.rs                                                               *)
(***************************************************************************)
\* Prefix::new : val is the prefix length, 0 on Err
Prefix_new(prefix) ==
  IF prefix < 1 \/ prefix > 32
  THEN [ok |-> FALSE, val |-> 0, err |-> [kind |-> "InvalidLength", arg |-> prefix]]
  ELSE [ok |-> TRUE, val |-> prefix, err |-> NoErr]

\* get_network_mask shifting by the prefix length instead of 32 - prefix
get_network_mask_swapped(p) == Shl(AllOnes, p)

get_network_mask(p) == Shl(AllOnes, 32 - p)

get_host_mask(p) == BitNot(get_network_mask(p))

\* get_max_hosts with the comparison of its guard turned around
get_max_hosts_inverted(p) ==
  IF p <= 31 THEN U32(0)
  ELSE U32Sub(Shl(U32(1), 32 - p), U32(2)).val

\* get_max_hosts subtracting only one reserved address
get_max_hosts_minus_one(p) ==
  IF p >= 31 THEN U32(0)
  ELSE U32Sub(Shl(U32(1), 32 - p), U32(1)).val

get_max_hosts(p) ==
  IF p >= 31 THEN U32(0)
  ELSE U32Sub(Shl(U32(1), 32 - p), U32(2)).val

\* Prefix::to_subnet_mask : the Result of SubnetMask::try_new that
\* SubnetMask::new unwraps (an Err here is a panic)
Prefix_to_subnet_mask(p) ==
  LET mask_value == Shl(AllOnes, 32 - p)
      mask_str == FormatDotted(ByteAt(mask_value, 24), ByteAt(mask_value, 16),
                               ByteAt(mask_value, 8), ByteAt(mask_value, 0))
  IN  SubnetMask_try_new(mask_str)

\* format!("{:08b}", num)
\* format!("{:08b}", num) with the least significant bit first
Binary8_lsb_first(num) == [k \in 1..8 |-> (num \div (2 ^ (k - 1))) % 2]

Binary8(num) == [k \in 1..8 |-> (num \div (2 ^ (8 - k))) % 2]

RECURSIVE BinaryOf(_)
BinaryOf(octets) ==
  IF octets = <<>> THEN <<>>
  ELSE Binary8(ParseUint(Head(octets), U8Max)) \o BinaryOf(Tail(octets))

\* the bit loop of Prefix::from_subnet_mask from bit i on
RECURSIVE CountConsecutive(_, _, _, _)
CountConsecutive(binary, i, count, consecutive) ==
  IF i > Len(binary) THEN Prefix_new(count)
  ELSE IF binary[i] = 1
       THEN IF ~consecutive
            THEN [ok |-> FALSE, val |-> 0, err |-> [kind |-> "ParseError", arg |-> 0]]
            ELSE CountConsecutive(binary, i + 1, count + 1, consecutive)
       ELSE CountConsecutive(binary, i + 1, count, FALSE)

\* from_subnet_mask whose bit walk skips the first bit
Prefix_from_subnet_mask_skip_first(mask) ==
  CountConsecutive(BinaryOf(Split(mask)), 2, 0, TRUE)

Prefix_from_subnet_mask(mask) ==
  CountConsecutive(BinaryOf(Split(mask)), 1, 0, TRUE)

(***************************************************************************)
(* network_address.rs                                                      *)
(***************************************************************************)
\* the packing loop of NetworkAddress::try_new from field i on; the result
\* is [bad |-> position of the first unparsable field or 0, addr |-> u32]
RECURSIVE NetworkAddress_pack(_, _, _)
NetworkAddress_pack(octets, i, binary_addr) ==
  IF i > Len(octets) THEN [bad |-> 0, addr |-> binary_addr]
  ELSE LET num == ParseUint(octets[i], U8Max)
       IN  IF num = -1 THEN [bad |-> i, addr |-> binary_addr]
           ELSE NetworkAddress_pack(octets, i + 1,
                                    BitOr(binary_addr, Shl(U32(num), 24 - ((i - 1) * 8))))

\* try_new without the host-bits check
NetworkAddress_try_new_no_host_check(address, prefix) ==
  IF address = <<>> THEN Err("EmptyAddress", 0)
  ELSE LET octets == Split(address)
       IN  IF Len(octets) # 4 THEN Err("InvalidOctetCount", Len(octets))
           ELSE LET packed == NetworkAddress_pack(octets, 1, U32(0))
                IN  IF packed.bad # 0 THEN Err("InvalidOctet", packed.bad)
                    ELSE Ok(address)

NetworkAddress_try_new(address, prefix) ==
  IF address = <<>> THEN Err("EmptyAddress", 0)
  ELSE LET octets == Split(address)
       IN  IF Len(octets) # 4 THEN Err("InvalidOctetCount", Len(octets))
           ELSE LET packed == NetworkAddress_pack(octets, 1, U32(0))
                    host_bits_mask == U32Sub(Shl(U32(1), 32 - prefix), U32(1)).val
                IN  IF packed.bad # 0 THEN Err("InvalidOctet", packed.bad)
                    ELSE IF BitAnd(packed.addr, host_bits_mask) # U32(0)
                         THEN Err("InvalidHostBits", prefix)
                         ELSE Ok(address)

\* to_u32 with the four octets packed in little-endian order
NetworkAddress_to_u32_le(address) ==
  LET octets == Split(address)
      o(k) == U32(ParseUint(octets[k], U8Max))
  IN  BitOr(BitOr(BitOr(Shl(o(4), 24), Shl(o(3), 16)), Shl(o(2), 8)), o(1))

NetworkAddress_to_u32(address) ==
  LET octets == Split(address)
      o(k) == U32(ParseUint(octets[k], U8Max))
  IN  BitOr(BitOr(BitOr(Shl(o(1), 24), Shl(o(2), 16)), Shl(o(3), 8)), o(4))

\* from_u32 that formats addr without clearing its host bits
NetworkAddress_from_u32_unmasked(addr, prefix) ==
  NetworkAddress_try_new(
    FormatDotted(ByteAt(addr, 24), ByteAt(addr, 16), ByteAt(addr, 8), ByteAt(addr, 0)),
    prefix)

NetworkAddress_from_u32(addr, prefix) ==
  LET host_bits_mask == U32Sub(Shl(U32(1), 32 - prefix), U32(1)).val
      network_addr == BitAnd(addr, BitNot(host_bits_mask))
      address == FormatDotted(ByteAt(network_addr, 24), ByteAt(network_addr, 16),
                              ByteAt(network_addr, 8), ByteAt(network_addr, 0))
  IN  NetworkAddress_try_new(address, prefix)

(***************************************************************************)
(* lib.rs : IpCalculator                                                   *)
(***************************************************************************)
octets_to_u32(o) ==
  BitOr(BitOr(BitOr(Shl(U32(o[1]), 24), Shl(U32(o[2]), 16)), Shl(U32(o[3]), 8)), U32(o[4]))

\* u32_to_ip_string with the four bytes taken in little-endian order
u32_to_ip_string_le(value) ==
  FormatDotted(ByteAt(value, 0), ByteAt(value, 8), ByteAt(value, 16), ByteAt(value, 24))

u32_to_ip_string(value) ==
  FormatDotted(ByteAt(value, 24), ByteAt(value, 16), ByteAt(value, 8), ByteAt(value, 0))

\* Option<u32>
None == [some |-> FALSE, val |-> U32(0)]
Some(v) == [some |-> TRUE, val |-> v]

\* what a call of calculate_model leaves behind: a returned IpModel, or a
\* panic at one of its unwraps or arithmetic overflow checks
NoModel ==
  [status |-> "none", site |-> "", ip |-> <<>>, prefix |-> 0, mask |-> <<>>,
   network_address |-> <<>>, broadcast_address |-> <<>>, first_host |-> <<>>,
   last_host |-> <<>>, possible_hosts |-> None]

Panic(where) == [NoModel EXCEPT !.status = "panic", !.site = where]

\* calculate_model(octets, subnet_mask); overflow_checks is TRUE for a build
\* that panics on arithmetic overflow (debug) and FALSE for one that wraps
calculate_model(o, subnet_mask, overflow_checks) ==
  LET ip == IpAddress_try_new(FormatDotted(o[1], o[2], o[3], o[4]))
      prefix == Prefix_new(subnet_mask)
  IN
  IF ~ip.ok THEN Panic("ip")
  ELSE IF ~prefix.ok THEN Panic("prefix")
  ELSE
  LET ip_value == octets_to_u32(o)
      network_mask == get_network_mask(prefix.val)
      host_mask == get_host_mask(prefix.val)
      network_value == BitAnd(ip_value, network_mask)
      broadcast_value == BitOr(network_value, host_mask)
      first_host_value == U32Add(network_value, U32(1))
      last_host_value == U32Sub(broadcast_value, U32(1))
  IN
  IF overflow_checks /\ first_host_value.overflow THEN Panic("first_host_value")
  ELSE IF overflow_checks /\ last_host_value.overflow THEN Panic("last_host_value")
  ELSE
  LET mask == Prefix_to_subnet_mask(prefix.val)
      network_address == NetworkAddress_from_u32(network_value, prefix.val)
      broadcast_address == IpAddress_try_new(u32_to_ip_string(broadcast_value))
      first_host == IpAddress_try_new(u32_to_ip_string(first_host_value.val))
      last_host == IpAddress_try_new(u32_to_ip_string(last_host_value.val))
  IN
  IF ~mask.ok THEN Panic("mask")
  ELSE IF ~network_address.ok THEN Panic("network_address")
  ELSE IF ~broadcast_address.ok THEN Panic("broadcast_address")
  ELSE IF ~first_host.ok THEN Panic("first_host")
  ELSE IF ~last_host.ok THEN Panic("last_host")
  ELSE [status |-> "ok", site |-> "", ip |-> ip.val, prefix |-> prefix.val,
        mask |-> mask.val, network_address |-> network_address.val,
        broadcast_address |-> broadcast_address.val, first_host |-> first_host.val,
        last_host |-> last_host.val, possible_hosts |-> Some(get_max_hosts(prefix.val))]

\* validate comparing first_host with the candidate's last_host
validate_wrong_field(self, other) ==
  [mask |-> self.mask = other.mask,
   network_address |-> self.network_address = other.network_address,
   broadcast_address |-> self.broadcast_address = other.broadcast_address,
   first_host |-> self.first_host = other.last_host,
   last_host |-> self.last_host = other.last_host,
   possible_hosts |-> self.possible_hosts = other.possible_hosts]

\* IpModel::validate(&self, other: &InputIpModel)
validate(self, other) ==
  [mask |-> self.mask = other.mask,
   network_address |-> self.network_address = other.network_address,
   broadcast_address |-> self.broadcast_address = other.broadcast_address,
   first_host |-> self.first_host = other.first_host,
   last_host |-> self.last_host = other.last_host,
   possible_hosts |-> self.possible_hosts = other.possible_hosts]

\* Validator::default()
Validator_default ==
  [mask |-> FALSE, network_address |-> FALSE, broadcast_address |-> FALSE,
   first_host |-> FALSE, last_host |-> FALSE, possible_hosts |-> FALSE]

\* InputIpModel::default() (only the fields validate reads)
InputIpModel_default ==
  [mask |-> <<>>, network_address |-> <<>>, broadcast_address |-> <<>>,
   first_host |-> <<>>, last_host |-> <<>>, possible_hosts |-> None]

(***************************************************************************)
(* main.rs : the string-based calculation of the UI                        *)
(***************************************************************************)
\* "c".repeat(n)
Repeat(c, n) == [k \in 1..n |-> c]

\* add_dots : a '.' before every 8th character except the first
RECURSIVE add_dots(_)
add_dots(binary_string) ==
  IF Len(binary_string) <= 8 THEN binary_string
  ELSE SubSeq(binary_string, 1, 8) \o <<".">>
         \o add_dots(SubSeq(binary_string, 9, Len(binary_string)))

\* format!("{:08b}", num)
Binary8Str(num) == [k \in 1..8 |-> Digits[((num \div (2 ^ (8 - k))) % 2) + 1]]

\* from_str_radix(s, 2) of a string of binary digits (value below 2^31)
RECURSIVE BinaryVal(_)
BinaryVal(s) ==
  IF s = <<>> THEN 0
  ELSE 2 * BinaryVal(SubSeq(s, 1, Len(s) - 1)) + DigitVal(s[Len(s)])

\* str::replace(".", "")
RemoveDots(s) == SelectSeq(s, LAMBDA c : c # ".")

\* u32::from_str_radix(s, 2) of a string of 32 binary digits
U32FromBinary(s) == <<BinaryVal(SubSeq(s, 1, 16)), BinaryVal(SubSeq(s, 17, 32))>>

\* format!("{:016b}", h) of one 16-bit half
Binary16Str(h) == [k \in 1..16 |-> Digits[((h \div (2 ^ (16 - k))) % 2) + 1]]

\* format!("{:032b}", x)
Binary32Str(x) == Binary16Str(x[1]) \o Binary16Str(x[2])

\* binary_dotted_to_decimal : each dotted field read as a binary u8, printed
\* in decimal, the fields joined with '.'
RECURSIVE DecimalFields(_)
DecimalFields(fields) ==
  IF fields = <<>> THEN <<>>
  ELSE ToDecimal(BinaryVal(Head(fields))) \o <<".">> \o DecimalFields(Tail(fields))

\* binary_dotted_to_decimal that keeps the trailing '.'
binary_dotted_to_decimal_no_pop(binary_dotted) == DecimalFields(Split(binary_dotted))

binary_dotted_to_decimal(binary_dotted) ==
  LET result == DecimalFields(Split(binary_dotted))
  IN  SubSeq(result, 1, Len(result) - 1)

\* main.rs IpModel::default()
UiIpModel_default ==
  [ip |-> <<>>, subnet_mask |-> 0, prefix |-> <<>>, mask |-> <<>>,
   binary_address |-> <<>>, network_address |-> <<>>, broadcast_address |-> <<>>,
   first_host |-> <<>>, last_host |-> <<>>, possible_hosts |-> None]

\* ip_calculations() for the octets o and the prefix length subnet_mask that
\* its random generator drew.  With a prefix length of at most 27 the network
\* value is below 2^32 - 1 and the broadcast value above 0, so + 1 and - 1
\* cannot overflow.
ip_calculations(o, subnet_mask) ==
  LET prefix == <<"/">> \o ToDecimal(subnet_mask)
      ip == FormatDotted(o[1], o[2], o[3], o[4])
      binary_mask == add_dots(Repeat("1", subnet_mask) \o Repeat("0", 32 - subnet_mask))
      binary_address == Binary8Str(o[1]) \o <<".">> \o Binary8Str(o[2]) \o <<".">>
                          \o Binary8Str(o[3]) \o <<".">> \o Binary8Str(o[4])
      network_address ==
        [i \in 1..Len(binary_address) |->
           IF binary_address[i] = "." THEN "."
           ELSE Digits[DigitVal(binary_address[i]) * DigitVal(binary_mask[i]) + 1]]
      \* the loop over network_address; i is 1-based here, 0-based in the code
      broadcast_address ==
        [i \in 1..Len(network_address) |->
           IF i - 1 >= subnet_mask + (subnet_mask \div 8)
           THEN IF network_address[i] = "." THEN "." ELSE "1"
           ELSE network_address[i]]
      first_host_int == U32Add(U32FromBinary(RemoveDots(network_address)), U32(1)).val
      first_host == add_dots(Binary32Str(first_host_int))
      last_host_int == U32Sub(U32FromBinary(RemoveDots(broadcast_address)), U32(1)).val
      last_host == add_dots(Binary32Str(last_host_int))
      number_of_hosts == IF subnet_mask < 31
                         THEN U32Sub(Shl(U32(1), 32 - subnet_mask), U32(2)).val
                         ELSE U32(0)
  IN  [ip |-> ip, subnet_mask |-> subnet_mask, prefix |-> prefix,
       mask |-> binary_dotted_to_decimal(binary_mask),
       binary_address |-> binary_address,
       network_address |-> binary_dotted_to_decimal(network_address),
       broadcast_address |-> binary_dotted_to_decimal(broadcast_address),
       first_host |-> binary_dotted_to_decimal(first_host),
       last_host |-> binary_dotted_to_decimal(last_host),
       possible_hosts |-> Some(number_of_hosts)]

\* the IpChecker before IpChecker::new ran: no model generated yet
NoChecker ==
  [ip |-> [some |-> FALSE, val |-> UiIpModel_default],
   user_input |-> UiIpModel_default, valid |-> Validator_default]

\* what the generator of ip_calculations draws: four octets and a prefix length
UiDrawSamples ==
  << [octets |-> <<192, 160, 127, 111>>, subnet_mask |-> 19],
     [octets |-> <<111, 254, 128, 192>>, subnet_mask |-> 27],
     [octets |-> <<128, 128, 128, 128>>, subnet_mask |-> 24],
     [octets |-> <<254, 254, 254, 254>>, subnet_mask |-> 18] >>

\* the models ip_calculations() can return, one for each draw
UiGenerated ==
  [d \in 1..Min(NumUiDraws, Len(UiDrawSamples)) |->
     ip_calculations(UiDrawSamples[d].octets, UiDrawSamples[d].subnet_mask)]

\* the digits of str::parse::<u32>(): checked_mul(10) and checked_add(digit) on
\* the two halves of the accumulator; None stands for Err
RECURSIVE ParseU32Digits(_, _)
ParseU32Digits(s, acc) ==
  IF s = <<>> THEN Some(acc)
  ELSE IF ~IsDigit(Head(s)) THEN None
  ELSE LET lo == acc[2] * 10 + DigitVal(Head(s))
           hi == acc[1] * 10 + (lo \div Half)
       IN  IF hi >= Half THEN None
           ELSE ParseU32Digits(Tail(s), <<hi, lo % Half>>)

\* value.parse::<u32>().ok()
ParseU32(s) ==
  IF s = <<>> THEN None
  ELSE IF Head(s) \in {"+", "-"} /\ Len(s) = 1 THEN None
  ELSE IF Head(s) = "+" THEN ParseU32Digits(Tail(s), U32(0))
  ELSE ParseU32Digits(s, U32(0))

\* IpChecker::new() when ip_calculations() returned generated
IpChecker_new(generated) ==
  [ip |-> [some |-> TRUE, val |-> generated],
   user_input |-> UiIpModel_default, valid |-> Validator_default]

\* update(Message::GenerateIp) when ip_calculations() returned generated
update_GenerateIp(c, generated) == [c EXCEPT !.ip = [some |-> TRUE, val |-> generated]]

\* update(Message::CheckIp) comparing first_host with the last host typed in
update_CheckIp_crossed_hosts(c) ==
  IF c.ip.some
  THEN [c EXCEPT !.valid =
          [mask |-> c.ip.val.mask = c.user_input.mask,
           network_address |-> c.ip.val.network_address = c.user_input.network_address,
           broadcast_address |-> c.ip.val.broadcast_address = c.user_input.broadcast_address,
           first_host |-> c.ip.val.first_host = c.user_input.last_host,
           last_host |-> c.ip.val.last_host = c.user_input.last_host,
           possible_hosts |-> c.ip.val.possible_hosts = c.user_input.possible_hosts]]
  ELSE c

\* update(Message::CheckIp)
update_CheckIp(c) ==
  IF c.ip.some
  THEN [c EXCEPT !.valid =
          [mask |-> c.ip.val.mask = c.user_input.mask,
           network_address |-> c.ip.val.network_address = c.user_input.network_address,
           broadcast_address |-> c.ip.val.broadcast_address = c.user_input.broadcast_address,
           first_host |-> c.ip.val.first_host = c.user_input.first_host,
           last_host |-> c.ip.val.last_host = c.user_input.last_host,
           possible_hosts |-> c.ip.val.possible_hosts = c.user_input.possible_hosts]]
  ELSE c

\* update(Message::MaskInput(value)) that also clears the report
update_MaskInput_clears_report(c, value) ==
  [c EXCEPT !.user_input.mask = value, !.valid = Validator_default]

\* update(Message::MaskInput(value))
update_MaskInput(c, value) == [c EXCEPT !.user_input.mask = value]

\* update(Message::NetworkAddressInput(value))
update_NetworkAddressInput(c, value) == [c EXCEPT !.user_input.network_address = value]

\* update(Message::BroadcastAddressInput(value))
update_BroadcastAddressInput(c, value) == [c EXCEPT !.user_input.broadcast_address = value]

\* update(Message::FirstHostInput(value))
update_FirstHostInput(c, value) == [c EXCEPT !.user_input.first_host = value]

\* update(Message::LastHostInput(value))
update_LastHostInput(c, value) == [c EXCEPT !.user_input.last_host = value]

\* update(Message::PossibleHostsInput(value))
update_PossibleHostsInput(c, value) ==
  [c EXCEPT !.user_input.possible_hosts = IF value = <<>> THEN None ELSE ParseU32(value)]

(***************************************************************************)
(* State.                                                                  *)
(***************************************************************************)
VARIABLES
  octets,       \* calculate_model's argument octets: &[u8; 4]
  prefix_len,   \* a prefix length argument (u8)
  model,        \* what calculate_model(octets, prefix_len) produced
  round_trip,   \* result of a Prefix -> SubnetMask -> Prefix or mask -> prefix -> mask trip
  text,         \* the String handed to a try_new constructor
  parsed,       \* the Result of that constructor
  candidate,    \* the InputIpModel handed to validate
  report,       \* the Validator returned by the latest validate call
  calls,        \* how many library calls were made on these inputs
  checker       \* the UI's IpChecker: ip (Option<IpModel>), user_input, valid

vars == <<octets, prefix_len, model, round_trip, text, parsed, candidate, report, calls,
          checker>>

NoResult == [ok |-> FALSE, val |-> <<>>, err |-> [kind |-> "NotCalled", arg |-> 0]]
NoTrip == [done |-> FALSE, mask |-> NoResult, prefix |-> Prefix_new(0), back |-> NoResult]

(***************************************************************************)
(* SpecCalc: calculate_model and the prefix round trip on every input.     *)
(***************************************************************************)
InitCalc ==
  /\ octets \in [1..4 -> OctetInputs]
  /\ prefix_len \in PrefixInputs
  /\ model = NoModel
  /\ round_trip = NoTrip
  /\ text = <<>>
  /\ parsed = NoResult
  /\ candidate = InputIpModel_default
  /\ report = Validator_default
  /\ calls = 0
  /\ checker = NoChecker

\* IpCalculator::calculate_model(&octets, prefix_len), in either build profile
CalculateModel ==
  /\ calls = 0
  /\ \E overflow_checks \in BOOLEAN :
       model' = calculate_model(octets, prefix_len, overflow_checks)
  /\ calls' = 1
  /\ UNCHANGED <<octets, prefix_len, round_trip, text, parsed, candidate, report, checker>>

\* Prefix::from_subnet_mask(&Prefix::new(prefix_len)?.to_subnet_mask())
PrefixRoundTrip ==
  /\ calls = 0
  /\ Prefix_new(prefix_len).ok
  /\ LET mask == Prefix_to_subnet_mask(Prefix_new(prefix_len).val)
     IN  round_trip' = [done |-> TRUE, mask |-> mask,
                        prefix |-> IF mask.ok THEN Prefix_from_subnet_mask(mask.val)
                                   ELSE Prefix_new(0),
                        back |-> NoResult]
  /\ calls' = 1
  /\ UNCHANGED <<octets, prefix_len, model, text, parsed, candidate, report, checker>>

NextCalc == CalculateModel \/ PrefixRoundTrip

SpecCalc == InitCalc /\ [][NextCalc]_vars

(***************************************************************************)
(* Reference subnet arithmetic, octet by octet, for the properties below.  *)
(***************************************************************************)
Max(a, b) == IF a > b THEN a ELSE b

\* how many of the top n bits of an address fall into octet i (1..4)
NetBits(n, i) == Max(0, Min(8, n - 8 * (i - 1)))

\* number of values the host part of octet i takes
HostSpan(n, i) == 2 ^ (8 - NetBits(n, i))

RefMask(n) == [i \in 1..4 |-> 256 - HostSpan(n, i)]
RefNetwork(o, n) == [i \in 1..4 |-> o[i] - (o[i] % HostSpan(n, i))]
RefBroadcast(o, n) == [i \in 1..4 |-> RefNetwork(o, n)[i] + HostSpan(n, i) - 1]

\* a + 1 and a - 1 on a big-endian four-octet number (modulo 2^32)
RefSucc(a) ==
  LET carry_into(i) == \A j \in (i + 1)..4 : a[j] = 255
  IN  [i \in 1..4 |-> IF carry_into(i) THEN (a[i] + 1) % 256 ELSE a[i]]

RefPred(a) ==
  LET borrow_from(i) == \A j \in (i + 1)..4 : a[j] = 0
  IN  [i \in 1..4 |-> IF borrow_from(i) THEN (a[i] + 255) % 256 ELSE a[i]]

Dotted(a) == FormatDotted(a[1], a[2], a[3], a[4])

ValidPrefixLen == prefix_len \in 1..32

(***************************************************************************)
(* Properties of calculate_model and of the prefix round trip (SpecCalc).  *)
(***************************************************************************)
\* C1: calculate_model returns an IpModel for every four octets and every
\* prefix length in [1,32]: no constructor or unwrap inside it fails.
C1_AlwaysReturnsModel ==
  (ValidPrefixLen /\ model.status # "none") => model.status = "ok"

\* C2: whenever calculate_model returns a model, its mask is the dotted form of
\* all-ones << (32-n), its network address is a AND network_mask(n), its
\* broadcast address is network OR host_mask(n), its first host is network + 1
\* and its last host is broadcast - 1, each as big-endian dotted decimal.
C2_ModelFields ==
  model.status = "ok" =>
    /\ model.mask = Dotted(RefMask(prefix_len))
    /\ model.network_address = Dotted(RefNetwork(octets, prefix_len))
    /\ model.broadcast_address = Dotted(RefBroadcast(octets, prefix_len))
    /\ model.first_host = Dotted(RefSucc(RefNetwork(octets, prefix_len)))
    /\ model.last_host = Dotted(RefPred(RefBroadcast(octets, prefix_len)))

\* the scenario 192.168.1.1/24 with the expected strings spelled out
C2_Witness ==
  /\ model.status = "ok"
  /\ octets = <<192, 168, 1, 1>>
  /\ prefix_len = 24
  /\ model.mask = <<"2", "5", "5", ".", "2", "5", "5", ".", "2", "5", "5", ".", "0">>
  /\ model.network_address = <<"1", "9", "2", ".", "1", "6", "8", ".", "1", ".", "0">>
  /\ model.broadcast_address = <<"1", "9", "2", ".", "1", "6", "8", ".", "1", ".", "2", "5", "5">>
  /\ model.first_host = <<"1", "9", "2", ".", "1", "6", "8", ".", "1", ".", "1">>
  /\ model.last_host = <<"1", "9", "2", ".", "1", "6", "8", ".", "1", ".", "2", "5", "4">>

\* x has no bit set outside its top n bits (n in 1..32)
ZeroOutsideTop(x, n) ==
  IF n <= 16 THEN x[2] = 0 /\ x[1] % (2 ^ (16 - n)) = 0
  ELSE x[2] % (2 ^ (32 - n)) = 0

\* C3: the network address of every returned model, packed back with to_u32,
\* has every bit outside the top n bits equal to zero.
C3_NetworkHostBitsZero ==
  model.status = "ok" =>
    ZeroOutsideTop(NetworkAddress_to_u32(model.network_address), prefix_len)

\* a returned model whose source address had host bits set inside an octet
\* that the prefix splits
C3_Witness ==
  /\ model.status = "ok"
  /\ prefix_len = 18
  /\ octets[3] = 255
  /\ octets[4] = 1
  /\ NetworkAddress_to_u32(model.network_address) = <<192 * 256 + 168, 192 * 256>>

\* 2^(32-n) - 2 for n in 1..30, written so that no intermediate exceeds 2^31 - 1
RefMaxHosts(n) == 2 * (2 ^ (31 - n) - 1)

\* C4: possible_hosts is Some(2^(32-n) - 2) for n < 31 and Some(0) for n in
\* {31, 32}; it is Prefix::get_max_hosts, whose shift and subtraction never
\* wrap in 32 bits.
C4_PossibleHosts ==
  ValidPrefixLen =>
    /\ prefix_len < 31 =>
         /\ get_max_hosts(prefix_len)[1] < Half \div 2
         /\ U32Val(get_max_hosts(prefix_len)) = RefMaxHosts(prefix_len)
    /\ prefix_len >= 31 => get_max_hosts(prefix_len) = U32(0)
    /\ model.status = "ok" => model.possible_hosts = Some(get_max_hosts(prefix_len))
    /\ (model.status = "ok" /\ prefix_len < 31) =>
         U32Val(model.possible_hosts.val) = RefMaxHosts(prefix_len)

C4_Witness ==
  /\ model.status = "ok"
  /\ prefix_len = 24
  /\ model.possible_hosts = [some |-> TRUE, val |-> <<0, 254>>]

C4_WitnessPointToPoint ==
  /\ model.status = "ok"
  /\ prefix_len = 31
  /\ model.possible_hosts = [some |-> TRUE, val |-> <<0, 0>>]

\* C7: for every prefix length n in [1,32], to_subnet_mask produces a string
\* that SubnetMask::new accepts, and from_subnet_mask of it is the prefix n.
C7_PrefixRoundTrip ==
  round_trip.done =>
    /\ round_trip.mask.ok
    /\ round_trip.prefix.ok
    /\ round_trip.prefix.val = prefix_len

C7_Witness ==
  /\ round_trip.done
  /\ prefix_len = 23
  /\ round_trip.mask.val = <<"2", "5", "5", ".", "2", "5", "5", ".", "2", "5", "4", ".", "0">>
  /\ round_trip.prefix.val = 23

(***************************************************************************)
(* SpecIp: IpAddress::try_new on every input text.                         *)
(***************************************************************************)
InitIp ==
  /\ text \in TextsFrom(IpFieldSamples, NumIpFieldSamples)
  /\ parsed = NoResult
  /\ octets = <<0, 0, 0, 0>>
  /\ prefix_len = 0
  /\ model = NoModel
  /\ round_trip = NoTrip
  /\ candidate = InputIpModel_default
  /\ report = Validator_default
  /\ calls = 0
  /\ checker = NoChecker

\* IpAddress::try_new(text)
IpAddressTryNew ==
  /\ calls = 0
  /\ parsed' = IpAddress_try_new(text)
  /\ calls' = 1
  /\ UNCHANGED <<octets, prefix_len, model, round_trip, text, candidate, report, checker>>

NextIp == IpAddressTryNew

SpecIp == InitIp /\ [][NextIp]_vars

\* number of fields str::split('.') yields, counted from the separators
FieldCount(s) == Cardinality({i \in 1..Len(s) : s[i] = "."}) + 1

\* field f is an integer in [1,255]
GoodIpField(f) == ParseUint(f, U16Max) \in 1..255

\* C9: try_new fails EmptyAddress on the empty string, InvalidOctetCount(k) when
\* there are k # 4 fields, and otherwise succeeds iff every field is an integer
\* in [1,255]; a failure on a field is that of the first offending field from
\* the left, with its 1-based position: InvalidOctet if it does not parse as a
\* 16-bit unsigned integer, OctetOutOfRange if it parses outside [1,255].
C9_IpAddressErrors ==
  calls = 1 =>
    LET fields == Split(text)
        bad == {i \in 1..Len(fields) : ~GoodIpField(fields[i])}
    IN  IF text = <<>> THEN parsed = Err("EmptyAddress", 0)
        ELSE IF FieldCount(text) # 4 THEN parsed = Err("InvalidOctetCount", FieldCount(text))
        ELSE IF bad = {} THEN parsed = Ok(text)
        ELSE LET first == CHOOSE i \in bad : \A j \in bad : i <= j
             IN  parsed = Err(IF ParseUint(fields[first], U16Max) = -1
                              THEN "InvalidOctet" ELSE "OctetOutOfRange", first)

\* "1.255.0.a": the zero at position 3 is reported, not the letter behind it
C9_Witness ==
  /\ calls = 1
  /\ text = <<"1", ".", "2", "5", "5", ".", "0", ".", "a">>
  /\ parsed = Err("OctetOutOfRange", 3)

C9_WitnessEmpty == calls = 1 /\ text = <<>> /\ parsed = Err("EmptyAddress", 0)

C9_WitnessOk == calls = 1 /\ parsed.ok /\ parsed.val = <<"1", ".", "2", "5", "5", ".", "1", ".", "1">>

(***************************************************************************)
(* SpecMask: SubnetMask::try_new on every input text, then the             *)
(* mask -> prefix -> mask trip on the accepted ones.                       *)
(***************************************************************************)
InitMask ==
  /\ text \in TextsFrom(MaskFieldSamples, NumMaskFieldSamples)
  /\ parsed = NoResult
  /\ octets = <<0, 0, 0, 0>>
  /\ prefix_len = 0
  /\ model = NoModel
  /\ round_trip = NoTrip
  /\ candidate = InputIpModel_default
  /\ report = Validator_default
  /\ calls = 0
  /\ checker = NoChecker

\* SubnetMask::try_new(text)
SubnetMaskTryNew ==
  /\ calls = 0
  /\ parsed' = SubnetMask_try_new(text)
  /\ calls' = 1
  /\ UNCHANGED <<octets, prefix_len, model, round_trip, text, candidate, report, checker>>

\* Prefix::new(m.to_prefix()) and, when that succeeds, to_subnet_mask()
MaskRoundTrip ==
  /\ calls = 1
  /\ parsed.ok
  /\ LET prefix == Prefix_new(SubnetMask_to_prefix(parsed.val))
     IN  round_trip' = [done |-> TRUE, mask |-> parsed, prefix |-> prefix,
                        back |-> IF prefix.ok THEN Prefix_to_subnet_mask(prefix.val)
                                 ELSE NoResult]
  /\ calls' = 2
  /\ UNCHANGED <<octets, prefix_len, model, text, parsed, candidate, report, checker>>

NextMask == SubnetMaskTryNew \/ MaskRoundTrip

SpecMask == InitMask /\ [][NextMask]_vars

\* C5: for every mask m accepted by SubnetMask::try_new, Prefix::new(m.to_prefix())
\* succeeds and its to_subnet_mask().as_string() equals m.
C5_MaskRoundTrip ==
  round_trip.done =>
    /\ round_trip.prefix.ok
    /\ round_trip.back.ok
    /\ round_trip.back.val = text

\* the numeric values of the fields of an accepted mask
MaskOctets(m) == [i \in 1..4 |-> ParseUint(Split(m)[i], U8Max)]

\* octets that are top-aligned runs of ones, all ones before the first octet
\* that is not full and all zeros after it
ContiguousMask(v) ==
  /\ \A i \in 1..4 : \E k \in 0..8 : v[i] = 256 - 2 ^ k
  /\ \A i \in 1..4 : v[i] # 255 => \A j \in (i + 1)..4 : v[j] = 0

\* C6: every value accepted by SubnetMask::try_new is a contiguous top-aligned
\* bitmask: read as 32 bits, no 1 bit follows a 0 bit.
C6_AcceptedMaskContiguous ==
  (calls >= 1 /\ parsed.ok) => ContiguousMask(MaskOctets(parsed.val))

\* the texts C10 speaks about: four fields that all parse as u8, one of them
\* greater than the field before it
AscendingMask(s) ==
  /\ FieldCount(s) = 4
  /\ \A i \in 1..4 : ParseUint(Split(s)[i], U8Max) # -1
  /\ \E i \in 2..4 : MaskOctets(s)[i] > MaskOctets(s)[i - 1]

\* C10 as stated: every such text fails with InvalidMaskPattern.
C10_AscendingIsMaskPattern ==
  (calls >= 1 /\ AscendingMask(text)) => parsed = Err("InvalidMaskPattern", 0)

\* C10 as amended: every such text fails; the error is InvalidMaskPattern when
\* every field up to and including the first ascending one is in
\* {0,128,192,224,240,248,252,254,255}, and otherwise InvalidOctetValue with the
\* position of the first field outside that set.
C10_AscendingFails ==
  (calls >= 1 /\ AscendingMask(text)) =>
    LET v == MaskOctets(text)
        asc == CHOOSE i \in 2..4 : v[i] > v[i - 1] /\ \A j \in 2..(i - 1) : v[j] <= v[j - 1]
        odd == {i \in 1..asc : v[i] \notin {0, 128, 192, 224, 240, 248, 252, 254, 255}}
    IN  IF odd = {} THEN parsed = Err("InvalidMaskPattern", 0)
        ELSE parsed = Err("InvalidOctetValue", CHOOSE i \in odd : \A j \in odd : i <= j)

\* "255.0.255.0"
C10_Witness ==
  /\ calls >= 1
  /\ text = <<"2", "5", "5", ".", "0", ".", "2", "5", "5", ".", "0">>
  /\ parsed = Err("InvalidMaskPattern", 0)

(***************************************************************************)
(* SpecValidate: calculate_model, then IpModel::validate against a         *)
(* candidate, repeatedly.                                                  *)
(***************************************************************************)
ValidateAddresses == {<<192, 168, 1, 1>>, <<192, 168, 1, 192>>, <<192, 168, 168, 1>>}
ValidatePrefixes == {24, 25}

\* candidate strings: empty, the answers for 192.168.1.1/24, the answers for
\* 192.168.1.192/25
CandidateMasks ==
  {<<>>, Dotted(<<255, 255, 255, 0>>), Dotted(<<255, 255, 255, 128>>)}
CandidateNetworks ==
  {<<>>, Dotted(<<192, 168, 1, 0>>), Dotted(<<192, 168, 1, 128>>)}
CandidateBroadcasts ==
  {<<>>, Dotted(<<192, 168, 1, 255>>), Dotted(<<192, 168, 1, 254>>)}
CandidateFirstHosts ==
  {<<>>, Dotted(<<192, 168, 1, 1>>), Dotted(<<192, 168, 1, 129>>)}
CandidateLastHosts ==
  {<<>>, Dotted(<<192, 168, 1, 254>>), Dotted(<<192, 168, 1, 1>>)}
CandidateHosts == {None, Some(U32(254)), Some(U32(126))}

Candidates ==
  [mask : CandidateMasks, network_address : CandidateNetworks,
   broadcast_address : CandidateBroadcasts, first_host : CandidateFirstHosts,
   last_host : CandidateLastHosts, possible_hosts : CandidateHosts]

InitValidate ==
  /\ octets \in ValidateAddresses
  /\ prefix_len \in ValidatePrefixes
  /\ candidate \in Candidates
  /\ model = NoModel
  /\ report = Validator_default
  /\ round_trip = NoTrip
  /\ text = <<>>
  /\ parsed = NoResult
  /\ calls = 0
  /\ checker = NoChecker

\* model.validate(&candidate)
Validate ==
  /\ calls >= 1
  /\ calls <= MaxValidateCalls
  /\ model.status = "ok"
  /\ report' = validate(model, candidate)
  /\ calls' = calls + 1
  /\ UNCHANGED <<octets, prefix_len, model, round_trip, text, parsed, candidate, checker>>

NextValidate == CalculateModel \/ Validate

SpecValidate == InitValidate /\ [][NextValidate]_vars

\* Option<u32> equality: None matches only None
SameOption(a, b) == a.some = b.some /\ (a.some => a.val = b.val)

\* the report of the latest validate call, field by field
ReportIsFieldEquality ==
  calls >= 2 =>
    /\ report.mask = (model.mask = candidate.mask)
    /\ report.network_address = (model.network_address = candidate.network_address)
    /\ report.broadcast_address = (model.broadcast_address = candidate.broadcast_address)
    /\ report.first_host = (model.first_host = candidate.first_host)
    /\ report.last_host = (model.last_host = candidate.last_host)
    /\ report.possible_hosts = SameOption(model.possible_hosts, candidate.possible_hosts)

\* a second validate call on unchanged inputs returns the report of the first
SecondCallSameReport ==
  (calls >= 2 /\ calls' = calls + 1) => report' = report

\* C8: validate sets each of the six report booleans to true exactly when the
\* derived field equals the candidate's same-named field (string equality for
\* the five addresses, Option equality for possible_hosts), each depending on
\* no other candidate field; calling it twice with unchanged inputs yields
\* identical reports.
C8_Validate == [](ReportIsFieldEquality) /\ [][SecondCallSameReport]_vars

\* a checked candidate that is right about the first host only: its last host
\* is the derived first host, and its host count is absent
C8_Witness ==
  /\ calls = MaxValidateCalls + 1
  /\ candidate.first_host = model.first_host
  /\ candidate.last_host = model.first_host
  /\ candidate.possible_hosts = None
  /\ report = [mask |-> FALSE, network_address |-> FALSE, broadcast_address |-> FALSE,
               first_host |-> TRUE, last_host |-> FALSE, possible_hosts |-> FALSE]

(***************************************************************************)
(* SpecNet: NetworkAddress::try_new on every input text and every valid    *)
(* prefix length.                                                          *)
(***************************************************************************)
InitNet ==
  /\ text \in TextsFrom(NetFieldSamples, NumNetFieldSamples)
  /\ prefix_len \in ValidPrefixes
  /\ parsed = NoResult
  /\ octets = <<0, 0, 0, 0>>
  /\ model = NoModel
  /\ round_trip = NoTrip
  /\ candidate = InputIpModel_default
  /\ report = Validator_default
  /\ calls = 0
  /\ checker = NoChecker

\* NetworkAddress::try_new(text, prefix_len)
NetworkAddressTryNew ==
  /\ calls = 0
  /\ parsed' = NetworkAddress_try_new(text, prefix_len)
  /\ calls' = 1
  /\ UNCHANGED <<octets, prefix_len, model, round_trip, text, candidate, report, checker>>

NextNet == NetworkAddressTryNew

SpecNet == InitNet /\ [][NextNet]_vars

\* the text has exactly four fields that all parse as u8
FourU8Fields(s) ==
  /\ FieldCount(s) = 4
  /\ \A i \in 1..4 : ParseUint(Split(s)[i], U8Max) # -1

\* the big-endian value of the octets v has a 1 bit outside its top n bits
HostBitsSet(v, n) == \E i \in 1..4 : v[i] % HostSpan(n, i) # 0

\* C11: for a text of exactly four fields that each parse as u8 and a prefix in
\* [1,32], try_new fails with InvalidHostBits{prefix} exactly when the packed
\* 32-bit value has a 1 bit outside its top prefix bits, and otherwise succeeds
\* storing the text unchanged.
C11_HostBits ==
  (calls = 1 /\ FourU8Fields(text)) =>
    IF HostBitsSet(MaskOctets(text), prefix_len)
    THEN parsed = Err("InvalidHostBits", prefix_len)
    ELSE parsed = Ok(text)

\* "192.168.1.1" with /24 fails
C11_Witness ==
  /\ calls = 1
  /\ text = Dotted(<<192, 168, 1, 1>>)
  /\ prefix_len = 24
  /\ parsed = Err("InvalidHostBits", 24)

\* "192.168.1.0" with /24 succeeds
C11_WitnessOk ==
  /\ calls = 1
  /\ text = Dotted(<<192, 168, 1, 0>>)
  /\ prefix_len = 24
  /\ parsed = Ok(text)

(***************************************************************************)
(* SpecFromU32: NetworkAddress::from_u32 on every value and every valid    *)
(* prefix length; the value is the big-endian packing of octets.           *)
(***************************************************************************)
InitFromU32 ==
  /\ octets \in [1..4 -> OctetInputs]
  /\ prefix_len \in ValidPrefixes
  /\ parsed = NoResult
  /\ text = <<>>
  /\ model = NoModel
  /\ round_trip = NoTrip
  /\ candidate = InputIpModel_default
  /\ report = Validator_default
  /\ calls = 0
  /\ checker = NoChecker

\* NetworkAddress::from_u32(u32::from_be_bytes(octets), prefix_len)
NetworkAddressFromU32 ==
  /\ calls = 0
  /\ parsed' = NetworkAddress_from_u32(octets_to_u32(octets), prefix_len)
  /\ calls' = 1
  /\ UNCHANGED <<octets, prefix_len, model, round_trip, text, candidate, report, checker>>

NextFromU32 == NetworkAddressFromU32

SpecFromU32 == InitFromU32 /\ [][NextFromU32]_vars

\* four octets packed big-endian into a u32
PackOctets(v) == <<v[1] * 256 + v[2], v[3] * 256 + v[4]>>

\* C12: for every 32-bit value v and every prefix n in [1,32], from_u32(v, n)
\* succeeds, its shift amount stays below 32 and its subtraction does not
\* underflow, and to_u32() of the result is v with its low 32-n bits cleared.
C12_FromU32 ==
  calls = 1 =>
    /\ 32 - prefix_len \in 0..31
    /\ ~U32Sub(Shl(U32(1), 32 - prefix_len), U32(1)).overflow
    /\ parsed.ok
    /\ NetworkAddress_to_u32(parsed.val) = PackOctets(RefNetwork(octets, prefix_len))

\* 192.168.255.1 with /18 becomes "192.168.192.0"
C12_Witness ==
  /\ calls = 1
  /\ octets = <<192, 168, 255, 1>>
  /\ prefix_len = 18
  /\ parsed = Ok(Dotted(<<192, 168, 192, 0>>))
  /\ NetworkAddress_to_u32(parsed.val) = <<192 * 256 + 168, 192 * 256>>

(***************************************************************************)
(* SpecRandom: IpCalculator::random_model, and the UI's ip_calculations on *)
(* the octets and prefix length random_model drew.                         *)
(***************************************************************************)
InitRandom ==
  /\ octets = <<0, 0, 0, 0>>
  /\ prefix_len = 0
  /\ model = NoModel
  /\ round_trip = NoTrip
  /\ text = <<>>
  /\ parsed = NoResult
  /\ candidate = InputIpModel_default
  /\ report = Validator_default
  /\ calls = 0
  /\ checker = NoChecker

\* IpCalculator::random_model(), in either build profile
RandomModel ==
  /\ calls = 0
  /\ \E o \in [1..4 -> RandomOctetInputs], subnet_mask \in RandomPrefixes,
        overflow_checks \in BOOLEAN :
       /\ octets' = o
       /\ prefix_len' = subnet_mask
       /\ model' = calculate_model(o, subnet_mask, overflow_checks)
  /\ calls' = 1
  /\ UNCHANGED <<round_trip, text, parsed, candidate, report, checker>>

\* ip_calculations() when its generator draws the same octets and prefix length
SameDrawIpCalculations ==
  /\ calls = 1
  /\ ~checker.ip.some
  /\ checker' = [checker EXCEPT !.ip = [some |-> TRUE,
                                         val |-> ip_calculations(octets, prefix_len)]]
  /\ UNCHANGED <<octets, prefix_len, model, round_trip, text, parsed, candidate, report,
                 calls>>

NextRandom == RandomModel \/ SameDrawIpCalculations

SpecRandom == InitRandom /\ [][NextRandom]_vars

\* the 32-bit value of a dotted decimal address
AddressValue(s) == PackOctets(MaskOctets(s))

U32Less(x, y) == x[1] < y[1] \/ (x[1] = y[1] /\ x[2] < y[2])

\* C13: every model returned by random_model is consistent: possible_hosts is
\* greater than 0, first_host is strictly greater than network_address and
\* last_host strictly less than broadcast_address, as 32-bit values.
C13_RandomModelConsistent ==
  (calls >= 1 /\ model.status = "ok") =>
    /\ model.possible_hosts.some
    /\ U32Less(U32(0), model.possible_hosts.val)
    /\ U32Less(AddressValue(model.network_address), AddressValue(model.first_host))
    /\ U32Less(AddressValue(model.last_host), AddressValue(model.broadcast_address))

\* the smallest block random_model draws: a /27 with 30 hosts
C13_Witness ==
  /\ calls >= 1
  /\ model.status = "ok"
  /\ prefix_len = 27
  /\ octets = <<111, 254, 128, 192>>
  /\ model.possible_hosts = Some(U32(30))
  /\ model.first_host = Dotted(<<111, 254, 128, 193>>)
  /\ model.last_host = Dotted(<<111, 254, 128, 222>>)

\* C17: for octets in [111,254] and a prefix length in [18,27] calculate_model
\* completes without panicking: network + 1 and broadcast - 1 do not overflow,
\* and no octet of the broadcast, first-host or last-host value is 0.
C17_RandomModelNoPanic ==
  calls >= 1 =>
    /\ model.status = "ok"
    /\ ~U32Add(PackOctets(RefNetwork(octets, prefix_len)), U32(1)).overflow
    /\ ~U32Sub(PackOctets(RefBroadcast(octets, prefix_len)), U32(1)).overflow
    /\ \A i \in 1..4 :
         /\ MaskOctets(model.broadcast_address)[i] # 0
         /\ MaskOctets(model.first_host)[i] # 0
         /\ MaskOctets(model.last_host)[i] # 0

\* a draw whose network address ends in a 0 octet: the first host ends in 1
C17_Witness ==
  /\ calls >= 1
  /\ model.status = "ok"
  /\ prefix_len = 25
  /\ octets = <<192, 128, 254, 111>>
  /\ model.network_address = Dotted(<<192, 128, 254, 0>>)
  /\ model.first_host = Dotted(<<192, 128, 254, 1>>)

\* C19: for octets in [111,254] and a prefix length in [18,27], the UI's
\* string-based ip_calculations and the library's calculate_model produce the
\* same mask, network address, broadcast address, first host, last host and
\* possible-host count.
C19_UiMatchesLibrary ==
  checker.ip.some =>
    /\ model.status = "ok"
    /\ checker.ip.val.mask = model.mask
    /\ checker.ip.val.network_address = model.network_address
    /\ checker.ip.val.broadcast_address = model.broadcast_address
    /\ checker.ip.val.first_host = model.first_host
    /\ checker.ip.val.last_host = model.last_host
    /\ checker.ip.val.possible_hosts = model.possible_hosts

\* both calculations ran on 160.192.127.111/19
C19_Witness ==
  /\ checker.ip.some
  /\ octets = <<160, 192, 127, 111>>
  /\ prefix_len = 19
  /\ checker.ip.val.mask = Dotted(<<255, 255, 224, 0>>)
  /\ checker.ip.val.network_address = Dotted(<<160, 192, 96, 0>>)
  /\ checker.ip.val.broadcast_address = Dotted(<<160, 192, 127, 255>>)
  /\ checker.ip.val.first_host = Dotted(<<160, 192, 96, 1>>)
  /\ checker.ip.val.last_host = Dotted(<<160, 192, 127, 254>>)
  /\ checker.ip.val.possible_hosts = Some(U32(8190))

(***************************************************************************)
(* SpecMaskPrefix: Prefix::from_subnet_mask on every mask that             *)
(* SubnetMask::try_new accepted.                                           *)
(***************************************************************************)
\* Prefix::from_subnet_mask(&m) for the accepted mask m
PrefixFromSubnetMask ==
  /\ calls = 1
  /\ parsed.ok
  /\ round_trip' = [done |-> TRUE, mask |-> parsed,
                    prefix |-> Prefix_from_subnet_mask(parsed.val), back |-> NoResult]
  /\ calls' = 2
  /\ UNCHANGED <<octets, prefix_len, model, text, parsed, candidate, report, checker>>

NextMaskPrefix == SubnetMaskTryNew \/ PrefixFromSubnetMask

SpecMaskPrefix == InitMask /\ [][NextMaskPrefix]_vars

\* bit j (1 = most significant bit of the first octet) of four octet values
MaskBit(v, j) == (v[((j - 1) \div 8) + 1] \div (2 ^ (7 - ((j - 1) % 8)))) % 2

OneAfterZero(v) == \E i \in 1..32, j \in 1..32 : i < j /\ MaskBit(v, i) = 0 /\ MaskBit(v, j) = 1

LeadingOnes(v) == Cardinality({j \in 1..32 : \A i \in 1..j : MaskBit(v, i) = 1})

\* C14: for every mask accepted by SubnetMask::try_new, Prefix::from_subnet_mask
\* reads the 32 mask bits octet-major, most significant bit first, returns
\* ParseError if any 1 bit follows a 0 bit, and otherwise returns Prefix::new(k)
\* for the number k of leading 1 bits: a prefix of value k when k is in 1..32
\* and InvalidLength(0) for the all-zero mask.
C14_FromSubnetMask ==
  round_trip.done =>
    LET v == MaskOctets(round_trip.mask.val)
        k == LeadingOnes(v)
    IN  IF OneAfterZero(v)
        THEN /\ ~round_trip.prefix.ok
             /\ round_trip.prefix.err.kind = "ParseError"
        ELSE /\ round_trip.prefix = Prefix_new(k)
             /\ k \in 1..32 => (round_trip.prefix.ok /\ round_trip.prefix.val = k)
             /\ k = 0 => (~round_trip.prefix.ok
                          /\ round_trip.prefix.err = [kind |-> "InvalidLength", arg |-> 0])

\* 255.128.0.0 is read as nine leading 1 bits
C14_Witness ==
  /\ round_trip.done
  /\ text = Join(<< <<"2", "5", "5">>, <<"1", "2", "8">>, <<"0">>, <<"0">> >>)
  /\ round_trip.prefix.ok
  /\ round_trip.prefix.val = 9

\* the all-zero mask is accepted and has no prefix
C14_WitnessZero ==
  /\ round_trip.done
  /\ MaskOctets(text) = <<0, 0, 0, 0>>
  /\ round_trip.prefix.err = [kind |-> "InvalidLength", arg |-> 0]

\* an accepted mask with a 1 bit after a 0 bit
C14_WitnessGap ==
  /\ round_trip.done
  /\ MaskOctets(text) = <<128, 128, 0, 0>>
  /\ round_trip.prefix.err.kind = "ParseError"

(***************************************************************************)
(* calculate_model on the prefix lengths 31 and 32 (SpecCalc).             *)
(***************************************************************************)
\* C15: for prefix length 32 and every address calculate_model returns a model
\* with first_host = broadcast_address + 1 and last_host = broadcast_address - 1,
\* and for prefix length 31 one with first_host = network + 1 and
\* last_host = broadcast - 1; in both first_host > last_host.
C15_DegeneratePrefixes ==
  (model.status # "none" /\ prefix_len \in {31, 32}) =>
    /\ model.status = "ok"
    /\ model.first_host = Dotted(RefSucc(RefNetwork(octets, prefix_len)))
    /\ model.last_host = Dotted(RefPred(RefBroadcast(octets, prefix_len)))
    /\ prefix_len = 32 =>
         model.first_host = Dotted(RefSucc(RefBroadcast(octets, prefix_len)))
    /\ U32Less(AddressValue(model.last_host), AddressValue(model.first_host))

(***************************************************************************)
(* SpecUI: the UI state machine, IpChecker::new and IpChecker::update.     *)
(***************************************************************************)
\* what the user types into the text input of the field f: nothing, or the
\* value of that field in the first model the generator can return
UiTexts(f) == {<<>>, UiGenerated[1][f]}

\* what the user types into the possible-hosts input
UiHostTexts ==
  { <<>>, <<"8", "1", "9", "0">>, <<"3", "0">>, <<"+", "3", "0">>, <<"x">>, <<"-", "1">>,
    <<"4", "2", "9", "4", "9", "6", "7", "2", "9", "6">> }

InitUI ==
  /\ octets = <<0, 0, 0, 0>>
  /\ prefix_len = 0
  /\ model = NoModel
  /\ round_trip = NoTrip
  /\ text = <<>>
  /\ parsed = NoResult
  /\ candidate = InputIpModel_default
  /\ report = Validator_default
  /\ calls = 0
  /\ \E d \in DOMAIN UiGenerated : checker = IpChecker_new(UiGenerated[d])

UiRest == <<octets, prefix_len, model, round_trip, text, parsed, candidate, report, calls>>

GenerateIp ==
  /\ \E d \in DOMAIN UiGenerated : checker' = update_GenerateIp(checker, UiGenerated[d])
  /\ UNCHANGED UiRest

CheckIp ==
  /\ checker' = update_CheckIp(checker)
  /\ UNCHANGED UiRest

MaskInput ==
  /\ \E value \in UiTexts("mask") : checker' = update_MaskInput(checker, value)
  /\ UNCHANGED UiRest

NetworkAddressInput ==
  /\ \E value \in UiTexts("network_address") :
       checker' = update_NetworkAddressInput(checker, value)
  /\ UNCHANGED UiRest

BroadcastAddressInput ==
  /\ \E value \in UiTexts("broadcast_address") :
       checker' = update_BroadcastAddressInput(checker, value)
  /\ UNCHANGED UiRest

FirstHostInput ==
  /\ \E value \in UiTexts("first_host") : checker' = update_FirstHostInput(checker, value)
  /\ UNCHANGED UiRest

LastHostInput ==
  /\ \E value \in UiTexts("last_host") : checker' = update_LastHostInput(checker, value)
  /\ UNCHANGED UiRest

PossibleHostsInput ==
  /\ \E value \in UiHostTexts : checker' = update_PossibleHostsInput(checker, value)
  /\ UNCHANGED UiRest

NextUI ==
  \/ GenerateIp
  \/ CheckIp
  \/ MaskInput
  \/ NetworkAddressInput
  \/ BroadcastAddressInput
  \/ FirstHostInput
  \/ LastHostInput
  \/ PossibleHostsInput

SpecUI == InitUI /\ [][NextUI]_vars

\* the fields of the report
ReportFields ==
  {"mask", "network_address", "broadcast_address", "first_host", "last_host",
   "possible_hosts"}

\* right after a CheckIp event every report boolean is the equality of the
\* generated model's field and the user input's field of the same name
CheckedReportIsEquality ==
  CheckIp =>
    /\ checker'.ip.some
    /\ \A f \in ReportFields \ {"possible_hosts"} :
         checker'.valid[f] = (checker'.ip.val[f] = checker'.user_input[f])
    /\ checker'.valid.possible_hosts =
         SameOption(checker'.ip.val.possible_hosts, checker'.user_input.possible_hosts)

\* C16: immediately after every CheckIp event each of the six report booleans
\* equals the equality of the then-current generated model's field and the
\* then-current user input's same-named field (string equality for the five
\* addresses, Option equality for possible_hosts), whatever events preceded it.
C16_CheckIpReport == [][CheckedReportIsEquality]_vars

\* a check after a GenerateIp and some edits: only the host count typed in is
\* that of the generated model, the mask and the first host are not
C16_Witness ==
  /\ checker.ip.val = UiGenerated[2]
  /\ checker.user_input.mask = UiGenerated[1].mask
  /\ checker.user_input.first_host = UiGenerated[1].first_host
  /\ checker.user_input.possible_hosts = Some(U32(30))
  /\ checker.valid = [Validator_default EXCEPT !.possible_hosts = TRUE]

\* the same with every address field matching
C16_WitnessAllTrue ==
  /\ checker.ip.val = UiGenerated[1]
  /\ checker.valid = [f \in ReportFields |-> TRUE]
  /\ checker.user_input.possible_hosts = Some(U32(8190))

\* everything of the IpChecker except the user-input field f stays as it was
OnlyInputChanges(f) ==
  /\ checker'.ip = checker.ip
  /\ checker'.valid = checker.valid
  /\ \A g \in (DOMAIN checker.user_input) \ {f} :
       checker'.user_input[g] = checker.user_input[g]

\* the frame of every event of update
UpdateFrame ==
  /\ checker'.valid # checker.valid => CheckIp
  /\ CheckIp => (checker'.ip = checker.ip /\ checker'.user_input = checker.user_input)
  /\ GenerateIp =>
       (checker'.user_input = checker.user_input /\ checker'.valid = checker.valid)
  /\ MaskInput => OnlyInputChanges("mask")
  /\ NetworkAddressInput => OnlyInputChanges("network_address")
  /\ BroadcastAddressInput => OnlyInputChanges("broadcast_address")
  /\ FirstHostInput => OnlyInputChanges("first_host")
  /\ LastHostInput => OnlyInputChanges("last_host")
  /\ PossibleHostsInput => OnlyInputChanges("possible_hosts")

\* C18: the validation report is all-false initially and changes only on a
\* CheckIp event: GenerateIp changes only the generated model, and each of the
\* six input events changes only its own user-input field, leaving the report
\* and the generated model unchanged.
C18_ReportFrame == (checker.valid = Validator_default) /\ [][UpdateFrame]_vars

\* after a check that matched, a GenerateIp and an edit, the report still holds
\* the result of that check
C18_Witness ==
  /\ checker.valid.mask
  /\ checker.valid.network_address
  /\ checker.ip.val = UiGenerated[2]
  /\ checker.user_input.mask = <<>>
  /\ checker.user_input.network_address = UiGenerated[1].network_address

====
